---------------------------- MODULE Spec2Model ----------------------------
(***************************************************************************)
(* A model of the document-assistant chatbot: the keyword/regex intent     *)
(* classifier, the rule engine, the response templates and the PDF search  *)
(* pipeline (corpus listing, filename ranking, chunking, the sequential    *)
(* per-chunk LLM search with early stop).                                  *)
(*                                                                         *)
(* Messages, file names and LLM answers are TLA+ strings handled character *)
(* by character.  Extracted PDF text is far too long for that (a chunk is  *)
(* 50,000 characters), so a text is a sequence of runs [ch, n] ("n times   *)
(* the character ch") and a chunk is the extent [s, e) it is sliced from. *)
(***************************************************************************)
EXTENDS Integers, Sequences, FiniteSets, TLC

VARIABLES
    api_key,              \* GeminiPDFService.api_key is set
    model,                \* GeminiPDFService.model is not None
    dir_exists,           \* os.path.exists(uploads_dir)
    listing,              \* os.listdir(uploads_dir), in enumeration order
    pc,                   \* position of the request being processed
    user_message,         \* the message (the query of the search)
    intent,               \* classify's label
    rule_result,          \* apply_rules' dict
    all_pdf_files,        \* search_all_pdfs: all_pdf_files
    matched_pdfs,         \* search_all_pdfs: matched_pdfs
    cand,                 \* index in matched_pdfs of the candidate in hand
    pdfs_searched,        \* search_all_pdfs: pdfs_searched
    searched_pdf_names,   \* search_all_pdfs: searched_pdf_names
    text,                 \* the text being chunked (pdf_text)
    chunk_size,           \* _split_text_into_chunks: chunk_size
    overlap,              \* _split_text_into_chunks: overlap
    start,                \* _split_text_into_chunks: start
    chunks,               \* _split_text_into_chunks: chunks
    chunk_idx,            \* _search_single_pdf: chunk_idx (0-based)
    result,               \* the dict search_all_pdfs returns
    response,             \* the text process_message returns
    read_log,             \* history: the _read_pdf calls and their outcomes
    llm_log,              \* history: the generate_content calls and their outcomes
    printed               \* history: the warnings printed by search_all_pdfs

envVars    == <<api_key, model, dir_exists, listing>>
msgVars    == <<user_message, intent, rule_result, response>>
searchVars == <<all_pdf_files, matched_pdfs, cand, pdfs_searched,
                searched_pdf_names, chunk_idx, result>>
chunkVars  == <<text, chunk_size, overlap, start, chunks>>
logVars    == <<read_log, llm_log, printed>>
vars       == <<envVars, pc, msgVars, searchVars, chunkVars, logVars>>

\* Python's None, for the values that are strings or None.
None == "<None>"

(***************************************************************************)
(* Python string operations, on TLA+ strings (1-based here).               *)
(***************************************************************************)
UpperLetters == "ABCDEFGHIJKLMNOPQRSTUVWXYZ"
LowerLetters == "abcdefghijklmnopqrstuvwxyz"
Whitespace   == {" ", "\t", "\n", "\r", "\f"}

\* One character of str.lower().
LowerChar(c) ==
    IF \E i \in 1..26 : SubSeq(UpperLetters, i, i) = c
    THEN LET i == CHOOSE i \in 1..26 : SubSeq(UpperLetters, i, i) = c
         IN  SubSeq(LowerLetters, i, i)
    ELSE c

\* One character of str.upper().
UpperChar(c) ==
    IF \E i \in 1..26 : SubSeq(LowerLetters, i, i) = c
    THEN LET i == CHOOSE i \in 1..26 : SubSeq(LowerLetters, i, i) = c
         IN  SubSeq(UpperLetters, i, i)
    ELSE c

RECURSIVE Lower(_)
Lower(s) == IF s = "" THEN "" ELSE LowerChar(Head(s)) \o Lower(Tail(s))

RECURSIVE Upper(_)
Upper(s) == IF s = "" THEN "" ELSE UpperChar(Head(s)) \o Upper(Tail(s))

RECURSIVE LStrip(_)
LStrip(s) == IF s # "" /\ Head(s) \in Whitespace THEN LStrip(Tail(s)) ELSE s

RECURSIVE RStrip(_)
RStrip(s) ==
    IF s # "" /\ SubSeq(s, Len(s), Len(s)) \in Whitespace
    THEN RStrip(SubSeq(s, 1, Len(s) - 1))
    ELSE s

\* str.strip()
Strip(s) == RStrip(LStrip(s))

\* s.startswith(k) at offset i (1-based)
MatchAt(s, k, i) == i + Len(k) - 1 <= Len(s) /\ SubSeq(s, i, i + Len(k) - 1) = k

\* k in s
Contains(s, k) == \E i \in 1..(Len(s) + 1) : MatchAt(s, k, i)

\* s.endswith(k)
EndsWith(s, k) == Len(k) <= Len(s) /\ SubSeq(s, Len(s) - Len(k) + 1, Len(s)) = k

\* s.replace(old, new): the non-overlapping occurrences, left to right
RECURSIVE Replace(_, _, _)
Replace(s, old, new) ==
    IF s = "" THEN ""
    ELSE IF MatchAt(s, old, 1)
         THEN new \o Replace(SubSeq(s, Len(old) + 1, Len(s)), old, new)
         ELSE Head(s) \o Replace(Tail(s), old, new)

\* s.split(): the maximal runs of non-whitespace characters, as a sequence
RECURSIVE SplitFrom(_, _)
SplitFrom(s, cur) ==
    IF s = "" THEN (IF cur = "" THEN <<>> ELSE <<cur>>)
    ELSE IF Head(s) \in Whitespace
         THEN (IF cur = "" THEN <<>> ELSE <<cur>>) \o SplitFrom(Tail(s), "")
         ELSE SplitFrom(Tail(s), cur \o Head(s))

Split(s) == SplitFrom(s, "")

\* set(seq)
SetOf(seq) == {seq[i] : i \in DOMAIN seq}

RECURSIVE LastSlash(_, _)
LastSlash(s, i) ==
    IF i = 0 THEN 0 ELSE IF SubSeq(s, i, i) = "/" THEN i ELSE LastSlash(s, i - 1)

\* os.path.basename(path)
Basename(path) == SubSeq(path, LastSlash(path, Len(path)) + 1, Len(path))

\* os.path.join(dir, file)
PathJoin(dir, file) == dir \o "/" \o file

(***************************************************************************)
(* The regular expressions of the classifier, each as the predicate        *)
(* re.search(pattern, s) decides.                                          *)
(***************************************************************************)
\* r"a.*b": a, then any characters but a newline, then b
SearchDotStar(s, a, b) ==
    \E i \in 1..Len(s) : \E j \in 1..Len(s) :
        /\ MatchAt(s, a, i)
        /\ j >= i + Len(a)
        /\ MatchAt(s, b, j)
        /\ \A k \in (i + Len(a))..(j - 1) : SubSeq(s, k, k) # "\n"

\* r"^(w1|w2|...)[\s!.,]*$": one of the words, then only whitespace ! . ,
\* (the vertical tab of \s is not a character of the model's messages)
MatchWordThenPunct(s, words) ==
    \E w \in words :
        /\ MatchAt(s, w, 1)
        /\ \A k \in (Len(w) + 1)..Len(s) :
               SubSeq(s, k, k) \in Whitespace \cup {"!", ".", ","}

(***************************************************************************)
(* IntentClassifier                                                        *)
(***************************************************************************)
\* intent_patterns' keys, in the dict's insertion order (the order max() scans)
IntentOrder == <<"pdf_search", "greeting", "goodbye", "help", "unknown">>

\* intent_patterns[intent]["keywords"]
Keywords(i) ==
    CASE i = "pdf_search" ->
            <<"search", "find", "where", "locate", "look for", "who", "what",
              "when", "why", "how", "checkup", "tell me", "true", "is", "are",
              "can", "does", "do">>
      [] i = "greeting" ->
            <<"hello", "hi", "hey", "greetings", "good morning", "good afternoon">>
      [] i = "goodbye" -> <<"bye", "goodbye", "see you", "farewell", "exit">>
      [] i = "help"    -> <<"help", "assist", "support", "what can you do">>
      [] OTHER         -> <<>>

\* intent_patterns[intent]["patterns"]: one truth value per pattern, in order
PatternMatches(i, s) ==
    CASE i = "pdf_search" ->
            <<Contains(s, "search"), Contains(s, "find"), Contains(s, "where"),
              SearchDotStar(s, "what", "is"), SearchDotStar(s, "who", "is"),
              SearchDotStar(s, "how", "does"), Contains(s, "tell me")>>
      [] i = "greeting" ->
            <<MatchWordThenPunct(s, {"hello", "hi", "hey"}),
              \E w \in {"morning", "afternoon", "evening"} : Contains(s, "good " \o w)>>
      [] i = "goodbye" -> <<MatchWordThenPunct(s, {"bye", "goodbye", "see you"})>>
      [] i = "help" ->
            <<Contains(s, "help"), Contains(s, "what can you do"),
              Contains(s, "how can you help")>>
      [] OTHER -> <<>>

\* the score classify gives one intent: 2 per keyword present, 5 per pattern found
IntentScore(i, s) ==
    LET found == PatternMatches(i, s)
    IN  2 * Cardinality({k \in DOMAIN Keywords(i) : Contains(s, Keywords(i)[k])})
      + 5 * Cardinality({p \in DOMAIN found : found[p]})

\* classify's intent_scores, indexed as IntentOrder
IntentScores(s) == [k \in DOMAIN IntentOrder |-> IntentScore(IntentOrder[k], s)]

\* max(intent_scores, key=intent_scores.get) keeping the last maximal key
BestIntentLastMax(s) ==
    LET scores == IntentScores(s)
        k == CHOOSE k \in DOMAIN IntentOrder :
                 /\ \A j \in DOMAIN IntentOrder : scores[j] <= scores[k]
                 /\ \A j \in DOMAIN IntentOrder : j > k => scores[j] < scores[k]
    IN  IntentOrder[k]

\* max(intent_scores, key=intent_scores.get): the first key, in the dict's
\* order, whose score no other key exceeds
BestIntent(s) ==
    LET scores == IntentScores(s)
        k == CHOOSE k \in DOMAIN IntentOrder :
                 /\ \A j \in DOMAIN IntentOrder : scores[j] <= scores[k]
                 /\ \A j \in DOMAIN IntentOrder : j < k => scores[j] < scores[k]
    IN  IntentOrder[k]

\* the words of classify's fallback test
QuestionWords ==
    <<"?", "what", "who", "when", "where", "why", "how", "is", "are", "can", "does", "do">>

\* IntentClassifier.classify
classify(msg) ==
    LET user_message_lower == Strip(Lower(msg))
        best_intent == BestIntent(user_message_lower)
    IN  IF IntentScore(best_intent, user_message_lower) > 0 /\ best_intent # "unknown"
        THEN best_intent
        ELSE IF /\ IntentScore("greeting", user_message_lower) = 0
                /\ IntentScore("goodbye", user_message_lower) = 0
                /\ IntentScore("help", user_message_lower) = 0
                /\ \E w \in DOMAIN QuestionWords :
                       Contains(user_message_lower, QuestionWords[w])
             THEN "pdf_search"
             ELSE "unknown"

(***************************************************************************)
(* RuleEngine                                                              *)
(***************************************************************************)
\* intent_to_operation.get(intent)
IntentToOperation(i) ==
    CASE i = "pdf_search"    -> "search"
      [] i = "pdf_extract"   -> "extract"
      [] i = "pdf_summarize" -> "summarize"
      [] i = "pdf_lookup"    -> "lookup"
      [] OTHER               -> None

\* apply_rules sending every intent to the search operation
apply_rules_any_intent(i, msg) ==
    [requires_gemini |-> TRUE, operation |-> "search", intent |-> i]

\* RuleEngine.apply_rules.  The dict's pdf_path and metadata entries (a path
\* and a page/section number found in the message) are left out: nothing
\* reads them.
apply_rules(i, msg) ==
    IF MatchAt(i, "pdf_", 1) /\ IntentToOperation(i) # None
    THEN [requires_gemini |-> TRUE, operation |-> IntentToOperation(i), intent |-> i]
    ELSE [requires_gemini |-> FALSE, operation |-> None, intent |-> i]

(***************************************************************************)
(* ResponseTemplates                                                       *)
(***************************************************************************)
GreetingTemplates ==
    <<"Hello! I'm your document assistant chatbot. I can search through all your PDF documents automatically. Just ask me any question!",
      "Hi there! I automatically search through all available PDF documents to answer your questions. What would you like to know?",
      "Greetings! Ask me any question and I'll search through my document database to find the answer for you.">>

GoodbyeTemplates ==
    <<"Goodbye! Have a great day!",
      "See you later! Feel free to come back if you need help with documents.",
      "Farewell! Take care!">>

HelpTemplate ==
    "I'm a chatbot that can help you search for nutritional facts! \n            Just ask me any question and I'll search through my documents to find the answer!"

EmptyTemplate == "I didn't receive a message. Please type something!"

UnknownTemplate == "I'm not sure I understand. Could you rephrase that?"

\* ResponseTemplates.get_generic_response
get_generic_response(response_type) ==
    CASE response_type = "greeting" -> GreetingTemplates
      [] response_type = "goodbye"  -> GoodbyeTemplates
      [] response_type = "help"     -> HelpTemplate
      [] response_type = "empty"    -> EmptyTemplate
      [] OTHER                      -> UnknownTemplate

\* ResponseTemplates.format_response: the set of texts it may return
\* (random.choice picks any member of a list template)
format_response(i) ==
    CASE i = "greeting" -> SetOf(GreetingTemplates)
      [] i = "goodbye"  -> SetOf(GoodbyeTemplates)
      [] i = "help"     -> {HelpTemplate}
      [] i = "empty"    -> {EmptyTemplate}
      [] OTHER          -> {UnknownTemplate}

\* dict.get(key, default)
Get(d, key, default) == IF key \in DOMAIN d THEN d[key] ELSE default

\* ResponseTemplates.format_pdf_response.  The source's prefix starts with a
\* cross-mark emoji, written "(x)" here.
format_pdf_response(operation, res, query) ==
    IF ~Get(res, "success", FALSE)
    THEN "(x) Error performing " \o operation \o " operation: "
            \o Get(res, "error", "Unknown error occurred")
    ELSE IF operation = "search"
         THEN Get(res, "results", "No results found.")
         ELSE "Operation completed: " \o operation   \* then the dict, as Python prints it

(***************************************************************************)
(* GeminiPDFService: corpus listing and filename ranking                   *)
(***************************************************************************)
\* the directory process_message searches
UploadsDir == "uploads"

\* _find_all_pdfs taking every entry of the directory
find_all_pdfs_any_suffix(exists, entries) ==
    IF exists
    THEN [k \in DOMAIN entries |-> PathJoin(UploadsDir, entries[k])]
    ELSE <<>>

\* GeminiPDFService._find_all_pdfs: the paths of the entries whose lower-cased
\* name ends in .pdf, in listing order; none when the directory is missing
find_all_pdfs(exists, entries) ==
    IF exists
    THEN LET keep == SelectSeq(entries, LAMBDA f : EndsWith(Lower(f), ".pdf"))
         IN  [k \in DOMAIN keep |-> PathJoin(UploadsDir, keep[k])]
    ELSE <<>>

\* the words of a file name: lower-cased, every ".pdf" removed, _ and - as spaces
FilenameNoExt(pdf_path) == Replace(Lower(Basename(pdf_path)), ".pdf", "")

FilenameWords(pdf_path) ==
    SetOf(Split(Replace(Replace(FilenameNoExt(pdf_path), "_", " "), "-", " ")))

\* the characters of a string, as a set
CharsOf(str) == {SubSeq(str, k, k) : k \in 1..Len(str)}

\* the score with query_words taken from the query string itself, so that
\* the "words" compared are its characters
TitleScoreByChars(pdf_path, query) ==
    LET query_lower    == Lower(query)
        query_words    == CharsOf(query_lower)
        filename_words == FilenameWords(pdf_path)
    IN  (IF Contains(FilenameNoExt(pdf_path), query_lower) THEN 100 ELSE 0)
      + 10 * Cardinality(query_words \cap filename_words)
      + 5 * Cardinality({qf \in query_words \X filename_words :
                            Contains(qf[2], qf[1]) \/ Contains(qf[1], qf[2])})

\* the score _match_pdfs_by_title gives one path
TitleScore(pdf_path, query) ==
    LET query_lower    == Lower(query)
        query_words    == SetOf(Split(query_lower))
        filename_words == FilenameWords(pdf_path)
    IN  (IF Contains(FilenameNoExt(pdf_path), query_lower) THEN 100 ELSE 0)
      + 10 * Cardinality(query_words \cap filename_words)
      + 5 * Cardinality({qf \in query_words \X filename_words :
                            Contains(qf[2], qf[1]) \/ Contains(qf[1], qf[2])})

\* an insertion that puts x before the entries of equal score
InsertBeforeEqual(sorted, x) ==
    LET k == Cardinality({j \in DOMAIN sorted : sorted[j][1] > x[1]})
    IN  SubSeq(sorted, 1, k) \o <<x>> \o SubSeq(sorted, k + 1, Len(sorted))

\* one insertion of list.sort(key=score, reverse=True): x goes after every
\* entry whose score is at least its own (the sort is stable, reversed or not)
InsertByScore(sorted, x) ==
    LET k == Cardinality({j \in DOMAIN sorted : sorted[j][1] >= x[1]})
    IN  SubSeq(sorted, 1, k) \o <<x>> \o SubSeq(sorted, k + 1, Len(sorted))

RECURSIVE SortByScore(_)
SortByScore(scored) ==
    IF scored = <<>> THEN <<>>
    ELSE InsertByScore(SortByScore(SubSeq(scored, 1, Len(scored) - 1)),
                       scored[Len(scored)])

\* GeminiPDFService._match_pdfs_by_title
match_pdfs_by_title(pdf_files, query) ==
    LET scored_pdfs == [k \in DOMAIN pdf_files |->
                            <<TitleScore(pdf_files[k], query), pdf_files[k]>>]
        sorted      == SortByScore(scored_pdfs)
    IN  [k \in DOMAIN sorted |-> sorted[k][2]]

(***************************************************************************)
(* GeminiPDFService: chunking.  A text is a sequence of runs [ch, n]; the  *)
(* positions are 0-based as in the source; a chunk is the extent [s, e)    *)
(* of the slice text[s:e].                                                 *)
(***************************************************************************)
Min(a, b) == IF a < b THEN a ELSE b
Max(a, b) == IF a > b THEN a ELSE b

RECURSIVE TextLen(_)
TextLen(t) == IF t = <<>> THEN 0 ELSE t[1].n + TextLen(Tail(t))

\* the position of the first character of run i
RunStart(t, i) == TextLen(SubSeq(t, 1, i - 1))

\* the highest position in [lo, hi) holding the character c, or -1
RFind(t, c, lo, hi) ==
    LET ends == {Min(RunStart(t, i) + t[i].n, hi) - 1 :
                    i \in {j \in DOMAIN t :
                              /\ t[j].ch = c
                              /\ Min(RunStart(t, j) + t[j].n, hi) > Max(RunStart(t, j), lo)}}
    IN  IF ends = {} THEN -1 ELSE CHOOSE p \in ends : \A q \in ends : q <= p

\* the characters chunk.rfind(c, -2000) looks at
SentenceWindow == 2000

\* chunk.rfind(c, -2000) on the chunk text[s:e]: an index into the chunk, or -1
ChunkRFind(t, c, s, e) ==
    LET p == RFind(t, c, s + Max((e - s) - SentenceWindow, 0), e)
    IN  IF p = -1 THEN -1 ELSE p - s

\* the next window starting after the chunk and its overlap
NextStartSkipping(end, ov) == end + ov

\* the next window starting at the overlap whatever the chunk
NextStartAtOverlap(end, ov) == ov

\* start = end - overlap
NextStart(end, ov) == end - ov

\* one iteration of the loop of _split_text_into_chunks: the chunk appended
\* and the value of end
SplitStep(t, st, cs) ==
    LET end0        == st + cs
        chunk0      == [s |-> st, e |-> Min(end0, TextLen(t))]
        last_period  == ChunkRFind(t, ".", chunk0.s, chunk0.e)
        last_newline == ChunkRFind(t, "\n", chunk0.s, chunk0.e)
        break_point == Max(last_period, last_newline)
    IN  IF end0 < TextLen(t) /\ break_point > st + cs \div 2
        THEN [chunk |-> [s |-> st, e |-> st + break_point + 1],
              end   |-> st + break_point + 1]
        ELSE [chunk |-> chunk0, end |-> end0]

RECURSIVE SplitLoop(_, _, _, _, _)
SplitLoop(t, st, cs, ov, acc) ==
    IF st < TextLen(t)
    THEN LET step == SplitStep(t, st, cs)
         IN  SplitLoop(t, NextStart(step.end, ov), cs, ov, Append(acc, step.chunk))
    ELSE acc

\* GeminiPDFService._split_text_into_chunks
split_text_into_chunks(t, cs, ov) ==
    IF TextLen(t) <= cs
    THEN <<[s |-> 0, e |-> TextLen(t)]>>
    ELSE SplitLoop(t, 0, cs, ov, <<>>)

(***************************************************************************)
(* GeminiPDFService: the search                                            *)
(***************************************************************************)
\* max_chunk_size of _search_single_pdf, and the default of overlap
MaxChunkSize   == 50000
DefaultOverlap == 5000

NotInitializedError ==
    "Gemini API not initialized. Please set GEMINI_API_KEY environment variable."
NoPdfFilesError  == "No PDF files found in the uploads directory."
NoRelevantError  == "No relevant information found in any of the PDF documents."

\* the test of _search_single_pdf on the stripped answer of the LLM
IsHit(result_text) ==
    Upper(result_text) # "NO_RELEVANT_INFO" /\ Len(result_text) > 20

\* search_all_pdfs checking the corpus before the model
EarlyReturnCorpusFirst(mdl, files) ==
    IF files = <<>>
    THEN [success |-> FALSE, error |-> NoPdfFilesError, operation |-> "search"]
    ELSE IF ~mdl
         THEN [success |-> FALSE, error |-> NotInitializedError, operation |-> "search"]
         ELSE [operation |-> "search"]

\* the two early returns of search_all_pdfs: the dict returned, or a dict
\* without "success" when the search goes on to rank and scan
EarlyReturn(mdl, files) ==
    IF ~mdl
    THEN [success |-> FALSE, error |-> NotInitializedError, operation |-> "search"]
    ELSE IF files = <<>>
         THEN [success |-> FALSE, error |-> NoPdfFilesError, operation |-> "search"]
         ELSE [operation |-> "search"]

\* a test that never sees a hit
FoundInChunkNever(res) == FALSE

\* search_all_pdfs: result.get("success") and result.get("found_in_chunk")
FoundInChunk(res) == Get(res, "success", FALSE) /\ Get(res, "found_in_chunk", FALSE)

\* the dict search_all_pdfs returns when the candidates are exhausted (read
\* after the loop, so with the counters as the last iteration left them)
ExhaustedResult ==
    [success            |-> FALSE,
     query              |-> user_message,
     error              |-> NoRelevantError,
     pdfs_searched      |-> pdfs_searched',
     pdfs_total         |-> Len(all_pdf_files),
     searched_pdf_names |-> searched_pdf_names',
     operation          |-> "search"]

\* the return of process_message for a PDF operation
Respond(res) ==
    /\ result'   = res
    /\ response' = format_pdf_response(rule_result.operation, res, user_message)
    /\ pc'       = "done"

\* the for loop of search_all_pdfs going on: the next candidate, or the
\* exhausted outcome after the last one
NextCandidate ==
    IF cand < Len(matched_pdfs)
    THEN /\ cand' = cand + 1
         /\ pc'   = "read"
         /\ UNCHANGED <<result, response>>
    ELSE /\ UNCHANGED cand
         /\ Respond(ExhaustedResult)

\* the warning search_all_pdfs prints for a result with a non-empty error
PrintWarning(res) ==
    printed' = IF Get(res, "error", "") # ""
               THEN Append(printed, "Warning: Error searching " \o res.pdf_name
                                        \o ": " \o res.error)
               ELSE printed

\* the hit, as search_all_pdfs returns it
ReturnHit(res) ==
    /\ Respond(res @@ [pdfs_searched |-> pdfs_searched',
                       pdfs_total    |-> Len(all_pdf_files)])
    /\ UNCHANGED <<cand, printed>>

\* search_all_pdfs returning the error of the first candidate that fails
AfterCandidateAbort(res) ==
    IF FoundInChunk(res)
    THEN ReturnHit(res)
    ELSE IF Get(res, "error", "") # ""
         THEN /\ PrintWarning(res)
              /\ UNCHANGED cand
              /\ Respond(res)
         ELSE /\ PrintWarning(res)
              /\ NextCandidate

\* search_all_pdfs after _search_single_pdf returned res for the candidate in
\* hand: return a hit at once; else print a warning if res has an error, and
\* go on with the loop
AfterCandidate(res) ==
    IF FoundInChunk(res)
    THEN ReturnHit(res)
    ELSE /\ PrintWarning(res)
         /\ NextCandidate

(***************************************************************************)
(* The inputs of the model                                                 *)
(***************************************************************************)
\* the most entries the uploads directory holds
MaxFiles == 3

\* the entries the uploads directory may hold
DirEntries ==
    {"nutrition_facts.pdf", "unrelated_report.pdf", "Vitamin-Content.PDF", "notes.txt"}

\* the sequences of at most n distinct members of S
RECURSIVE DistinctSeqs(_, _)
DistinctSeqs(S, n) ==
    IF n = 0 THEN {<<>>}
    ELSE LET shorter == DistinctSeqs(S, n - 1)
         IN  shorter \cup UNION {{Append(q, x) : x \in S \ SetOf(q)} :
                                    q \in {r \in shorter : Len(r) = n - 1}}

\* the messages a user sends
Messages ==
    {"", "   ", "hello", "Bye!", "help", "thanks",
     "find the vitamin content", "What is in the nutrition facts?"}

\* the answers of the LLM (response.text): the sentinel in another case and
\* padded, an answer too short to count, and an answer
LlmAnswers ==
    {" no_relevant_info\n", "Not stated.",
     "Vitamin C is 90 mg per serving (Smith, 2020)."}

\* the messages of the exceptions generate_content raises
LlmErrors == {"429 Resource has been exhausted"}

\* the messages of the exceptions PyPDF2 raises
ReadErrors == {"EOF marker not found"}

\* the texts _read_pdf extracts: one of a single chunk, one of two chunks
PdfTexts ==
    {<<[ch |-> "a", n |-> 24000], [ch |-> "\n", n |-> 1]>>,
     <<[ch |-> "a", n |-> 48000], [ch |-> ".", n |-> 1500], [ch |-> "a", n |-> 24000]>>}

(***************************************************************************)
(* The chatbot handling one message                                        *)
(***************************************************************************)
\* the values of the variables a request has not set yet
MsgIdle ==
    /\ intent = None
    /\ rule_result = [requires_gemini |-> FALSE, operation |-> None, intent |-> None]
    /\ response = None

SearchIdle ==
    /\ matched_pdfs = <<>>
    /\ cand = 0
    /\ pdfs_searched = 0
    /\ searched_pdf_names = <<>>
    /\ chunk_idx = 0
    /\ result = [operation |-> None]

ChunkIdle ==
    /\ text = <<>>
    /\ chunk_size = MaxChunkSize
    /\ overlap = DefaultOverlap
    /\ start = 0
    /\ chunks = <<>>

LogIdle ==
    /\ read_log = <<>>
    /\ llm_log = <<>>
    /\ printed = <<>>

\* the state after ChatbotEngine() is constructed.  GeminiPDFService() never
\* raises (it catches the failure of the model and leaves model = None), so
\* gemini_pdf_service is always set; without an API key there is no model.
Init ==
    /\ api_key \in BOOLEAN
    /\ model \in (IF api_key THEN BOOLEAN ELSE {FALSE})
    /\ dir_exists \in BOOLEAN
    /\ listing \in (IF dir_exists THEN DistinctSeqs(DirEntries, MaxFiles) ELSE {<<>>})
    /\ pc = "idle"
    /\ user_message = None
    /\ MsgIdle
    /\ all_pdf_files = <<>>
    /\ SearchIdle
    /\ ChunkIdle
    /\ LogIdle

\* ChatbotEngine.process_message, up to its return or to the first PDF that
\* search_all_pdfs is about to read
ProcessMessage(msg) ==
    /\ pc = "idle"
    /\ user_message' = msg
    /\ UNCHANGED <<envVars, chunkVars, logVars, pdfs_searched, searched_pdf_names,
                   chunk_idx>>
    /\ IF msg = "" \/ Strip(msg) = ""
       THEN /\ response' = get_generic_response("empty")
            /\ pc' = "done"
            /\ UNCHANGED <<intent, rule_result, all_pdf_files, matched_pdfs, cand, result>>
       ELSE /\ intent' = classify(msg)
            /\ rule_result' = apply_rules(intent', msg)
            /\ IF ~rule_result'.requires_gemini
               THEN /\ response' \in format_response(intent')
                    /\ pc' = "done"
                    /\ UNCHANGED <<all_pdf_files, matched_pdfs, cand, result>>
               ELSE IF rule_result'.operation # "search"
               THEN /\ result' = [error |-> "Unknown PDF operation: "
                                                \o rule_result'.operation]
                    /\ response' = format_pdf_response(rule_result'.operation,
                                                       result', msg)
                    /\ pc' = "done"
                    /\ UNCHANGED <<all_pdf_files, matched_pdfs, cand>>
               ELSE LET early == EarlyReturn(model, find_all_pdfs(dir_exists, listing))
                    IN  IF "success" \in DOMAIN early
                        THEN /\ result' = early
                             /\ response' = format_pdf_response(
                                                rule_result'.operation, early, msg)
                             /\ pc' = "done"
                             /\ UNCHANGED <<all_pdf_files, matched_pdfs, cand>>
                        ELSE /\ all_pdf_files' = find_all_pdfs(dir_exists, listing)
                             /\ matched_pdfs' = match_pdfs_by_title(all_pdf_files', msg)
                             /\ cand' = 1
                             /\ pc' = "read"
                             /\ UNCHANGED <<result, response>>

\* the head of the loop of search_all_pdfs for the candidate in hand, and
\* _search_single_pdf up to _read_pdf, which raises: the candidate's result is
\* the error
ReadFails(e) ==
    /\ pc = "read"
    /\ read_log' = Append(read_log, [pdf   |-> matched_pdfs[cand],
                                     error |-> "Error reading PDF: " \o e])
    /\ searched_pdf_names' = Append(searched_pdf_names, Basename(matched_pdfs[cand]))
    /\ pdfs_searched' = pdfs_searched + 1
    /\ AfterCandidate([success   |-> FALSE,
                       error     |-> "Error reading PDF: " \o e,
                       pdf_name  |-> Basename(matched_pdfs[cand]),
                       operation |-> "search"])
    /\ UNCHANGED <<envVars, user_message, intent, rule_result, all_pdf_files,
                   matched_pdfs, chunk_idx, chunkVars, llm_log>>

\* the same, with _read_pdf returning the text t, which is split into chunks
ReadReturns(t) ==
    /\ pc = "read"
    /\ read_log' = Append(read_log, [pdf |-> matched_pdfs[cand], error |-> None])
    /\ searched_pdf_names' = Append(searched_pdf_names, Basename(matched_pdfs[cand]))
    /\ pdfs_searched' = pdfs_searched + 1
    /\ text' = t
    /\ chunks' = split_text_into_chunks(t, MaxChunkSize, DefaultOverlap)
    /\ chunk_idx' = 0
    /\ pc' = "query"
    /\ UNCHANGED <<envVars, msgVars, all_pdf_files, matched_pdfs, cand, result,
                   chunk_size, overlap, start, llm_log, printed>>

\* generate_content on the chunk in hand returns the answer a
GenerateReturns(a) ==
    /\ pc = "query"
    /\ LET result_text == Strip(a)
           pdf_path    == matched_pdfs[cand]
       IN  /\ llm_log' = Append(llm_log, [pdf   |-> pdf_path,
                                          chunk |-> chunk_idx + 1,
                                          hit   |-> IsHit(result_text),
                                          error |-> None])
           /\ UNCHANGED <<pdfs_searched, searched_pdf_names>>
           /\ IF IsHit(result_text)
              THEN /\ AfterCandidate([success        |-> TRUE,
                                      query          |-> user_message,
                                      results        |-> result_text,
                                      pdf_path       |-> pdf_path,
                                      pdf_name       |-> Basename(pdf_path),
                                      chunk_searched |-> chunk_idx + 1,
                                      total_chunks   |-> Len(chunks),
                                      found_in_chunk |-> TRUE,
                                      operation      |-> "search"])
                   /\ UNCHANGED chunk_idx
              ELSE IF chunk_idx + 1 < Len(chunks)
              THEN /\ chunk_idx' = chunk_idx + 1
                   /\ UNCHANGED <<pc, cand, result, response, printed>>
              ELSE /\ AfterCandidate([success      |-> FALSE,
                                      found_in_pdf |-> FALSE,
                                      pdf_name     |-> Basename(pdf_path),
                                      operation    |-> "search"])
                   /\ UNCHANGED chunk_idx
    /\ UNCHANGED <<envVars, user_message, intent, rule_result, all_pdf_files,
                   matched_pdfs, chunkVars, read_log>>

\* generate_content on the chunk in hand raises: the candidate's result is
\* the error
GenerateRaises(e) ==
    /\ pc = "query"
    /\ llm_log' = Append(llm_log, [pdf   |-> matched_pdfs[cand],
                                   chunk |-> chunk_idx + 1,
                                   hit   |-> FALSE,
                                   error |-> e])
    /\ UNCHANGED <<pdfs_searched, searched_pdf_names>>
    /\ AfterCandidate([success   |-> FALSE,
                       error     |-> e,
                       pdf_name  |-> Basename(matched_pdfs[cand]),
                       operation |-> "search"])
    /\ UNCHANGED <<envVars, user_message, intent, rule_result, all_pdf_files,
                   matched_pdfs, chunk_idx, chunkVars, read_log>>

Next ==
    \/ \E msg \in Messages : ProcessMessage(msg)
    \/ \E e \in ReadErrors : ReadFails(e)
    \/ \E t \in PdfTexts : ReadReturns(t)
    \/ \E a \in LlmAnswers : GenerateReturns(a)
    \/ \E e \in LlmErrors : GenerateRaises(e)

Spec == Init /\ [][Next]_vars

(***************************************************************************)
(* classify on its own, over a range of messages                           *)
(***************************************************************************)
\* the most words of a message
MaxWords == 2

Vocabulary ==
    {"hi", "Hello", "is", "bye", "help", "find", "what", "this", "vitamin",
     "hey!", "who", "?"}

\* the messages of at most n words of the vocabulary, joined by single spaces
RECURSIVE Phrases(_)
Phrases(n) ==
    IF n = 1 THEN Vocabulary
    ELSE Phrases(n - 1) \cup {ph \o " " \o w : ph \in Phrases(n - 1), w \in Vocabulary}

\* no service, no directory: classify reads none of them
EnvIdle ==
    /\ api_key = FALSE
    /\ model = FALSE
    /\ dir_exists = FALSE
    /\ listing = <<>>

InitClassify ==
    /\ EnvIdle
    /\ pc = "classify"
    /\ user_message \in Phrases(MaxWords)
    /\ MsgIdle
    /\ all_pdf_files = <<>>
    /\ SearchIdle
    /\ ChunkIdle
    /\ LogIdle

\* intent = self.intent_classifier.classify(user_message)
Classify ==
    /\ pc = "classify"
    /\ intent' = classify(user_message)
    /\ pc' = "done"
    /\ UNCHANGED <<envVars, user_message, rule_result, response, searchVars,
                   chunkVars, logVars>>

NextClassify == Classify

SpecClassify == InitClassify /\ [][NextClassify]_vars

(***************************************************************************)
(* _match_pdfs_by_title on its own, over a range of listings and queries   *)
(***************************************************************************)
RankFiles ==
    {"nutrition_facts.pdf", "unrelated_report.pdf", "Vitamin-Content.PDF",
     "vitamin_facts.pdf", "find the vitamin content.pdf"}

RankQueries == {"find the vitamin content", "Nutrition facts", "annual report"}

InitRank ==
    /\ EnvIdle
    /\ pc = "rank"
    /\ user_message \in RankQueries
    /\ MsgIdle
    /\ \E names \in DistinctSeqs(RankFiles, MaxFiles) :
           all_pdf_files = [k \in DOMAIN names |-> PathJoin(UploadsDir, names[k])]
    /\ SearchIdle
    /\ ChunkIdle
    /\ LogIdle

\* matched_pdfs = self._match_pdfs_by_title(all_pdf_files, query)
Rank ==
    /\ pc = "rank"
    /\ matched_pdfs' = match_pdfs_by_title(all_pdf_files, user_message)
    /\ pc' = "done"
    /\ UNCHANGED <<envVars, msgVars, all_pdf_files, cand, pdfs_searched,
                   searched_pdf_names, chunk_idx, result, chunkVars, logVars>>

NextRank == Rank

SpecRank == InitRank /\ [][NextRank]_vars

(***************************************************************************)
(* _split_text_into_chunks on its own, one loop iteration a step           *)
(***************************************************************************)
\* the most runs of a text
MaxRuns == 3

\* the characters of a text: an ordinary one and the two terminators
TextChars == {"a", ".", "\n"}

\* the lengths of a run
RunLengths == {1, 1500, 24000, 46000, 48000}

\* the texts of at most n runs
RECURSIVE Texts(_)
Texts(n) ==
    IF n = 0 THEN {<<>>}
    ELSE Texts(n - 1) \cup
         {Append(t, [ch |-> c, n |-> k]) :
             t \in {u \in Texts(n - 1) : Len(u) = n - 1},
             c \in TextChars, k \in RunLengths}

\* the (chunk_size, overlap) the function is called with: the defaults, no
\* overlap, and a pair whose later windows can still be cut at a terminator
SplitParams == {<<50000, 5000>>, <<50000, 0>>, <<30000, 14000>>}

InitSplit ==
    /\ EnvIdle
    /\ pc = "split"
    /\ user_message = None
    /\ MsgIdle
    /\ all_pdf_files = <<>>
    /\ SearchIdle
    /\ text \in Texts(MaxRuns)
    /\ \E par \in SplitParams : chunk_size = par[1] /\ overlap = par[2]
    /\ start = 0
    /\ chunks = <<>>
    /\ LogIdle

\* the call of _split_text_into_chunks: a text no longer than chunk_size is
\* returned as the only chunk, else the loop starts at 0
SplitBegin ==
    /\ pc = "split"
    /\ IF TextLen(text) <= chunk_size
       THEN /\ chunks' = <<[s |-> 0, e |-> TextLen(text)]>>
            /\ pc' = "done"
       ELSE /\ chunks' = <<>>
            /\ pc' = "split_loop"
    /\ start' = 0
    /\ UNCHANGED <<envVars, msgVars, searchVars, text, chunk_size, overlap, logVars>>

\* one iteration of the while loop; the function returns when start has
\* reached the end of the text
SplitIterate ==
    /\ pc = "split_loop"
    /\ start < TextLen(text)
    /\ LET step == SplitStep(text, start, chunk_size)
       IN  /\ chunks' = Append(chunks, step.chunk)
           /\ start' = NextStart(step.end, overlap)
    /\ pc' = IF start' < TextLen(text) THEN "split_loop" ELSE "done"
    /\ UNCHANGED <<envVars, msgVars, searchVars, text, chunk_size, overlap, logVars>>

NextSplit == SplitBegin \/ SplitIterate

SpecSplit == InitSplit /\ [][NextSplit]_vars

(***************************************************************************)
(* Properties of the search (specification Spec)                           *)
(***************************************************************************)
\* the place of a path in the ranked candidates
RankOf(pdf_path) == CHOOSE k \in DOMAIN matched_pdfs : matched_pdfs[k] = pdf_path

\* the last entry of a non-empty log
Last(log) == log[Len(log)]

\* C1: early stop.  The LLM calls follow the ranked order of the candidates
\* and, within a candidate, the index order of its chunks; no call is made
\* after a call that hit; and once a call has hit, the search has returned
\* that answer, with pdfs_searched the rank of the file it was found in, no
\* later candidate read or queried.  So with 3 candidates of which only the
\* 2nd hits, pdfs_searched = 2 and the 3rd is never read or queried.
EarlyStop ==
    /\ \A i \in 1..(Len(llm_log) - 1) : ~llm_log[i].hit
    /\ llm_log # <<>> => llm_log[1].chunk = 1
    /\ \A i \in 1..(Len(llm_log) - 1) :
           \/ /\ llm_log[i + 1].pdf = llm_log[i].pdf
              /\ llm_log[i + 1].chunk = llm_log[i].chunk + 1
           \/ /\ RankOf(llm_log[i + 1].pdf) > RankOf(llm_log[i].pdf)
              /\ llm_log[i + 1].chunk = 1
    /\ (llm_log # <<>> /\ Last(llm_log).hit) =>
           LET found == Last(llm_log)
           IN  /\ pc = "done"
               /\ Get(result, "success", FALSE)
               /\ result.pdf_path = found.pdf
               /\ result.chunk_searched = found.chunk
               /\ result.pdfs_searched = RankOf(found.pdf)
               /\ response = result.results
               /\ Len(read_log) = RankOf(found.pdf)
               /\ \A k \in DOMAIN matched_pdfs :
                      k > RankOf(found.pdf) =>
                          /\ \A i \in DOMAIN read_log : read_log[i].pdf # matched_pdfs[k]
                          /\ \A i \in DOMAIN llm_log : llm_log[i].pdf # matched_pdfs[k]
    /\ (/\ pc = "done"
        /\ Len(matched_pdfs) = 3
        /\ \E i \in DOMAIN llm_log : llm_log[i].hit /\ llm_log[i].pdf = matched_pdfs[2]) =>
           /\ result.pdfs_searched = 2
           /\ \A i \in DOMAIN read_log : read_log[i].pdf # matched_pdfs[3]
           /\ \A i \in DOMAIN llm_log : llm_log[i].pdf # matched_pdfs[3]

\* C1's case: 3 candidates, the 1st queried without a hit, the hit in the
\* first of the two chunks of the 2nd
EarlyStopWitness ==
    /\ pc = "done"
    /\ Len(matched_pdfs) = 3
    /\ Get(result, "success", FALSE)
    /\ result.pdfs_searched = 2
    /\ result.chunk_searched = 1
    /\ result.total_chunks = 2
    /\ \E i \in DOMAIN llm_log : llm_log[i].pdf = matched_pdfs[1] /\ ~llm_log[i].hit

\* C2: skip and continue.  A call that raised is the last call for its file,
\* and a file whose text could not be read is never queried; the candidates
\* are read in ranked order, none skipped, whatever failed before; the search
\* ends without a hit only after it has read every candidate; and a hit is
\* returned as a success whatever failed before it.
SkipAndContinue ==
    /\ \A i \in DOMAIN llm_log : \A j \in DOMAIN llm_log :
           (i < j /\ llm_log[i].error # None) => llm_log[j].pdf # llm_log[i].pdf
    /\ \A i \in DOMAIN read_log : \A j \in DOMAIN llm_log :
           read_log[i].error # None => llm_log[j].pdf # read_log[i].pdf
    /\ \A i \in DOMAIN read_log : i <= Len(matched_pdfs) /\ read_log[i].pdf = matched_pdfs[i]
    /\ pc = "read"  => Len(read_log) = cand - 1 /\ cand <= Len(matched_pdfs)
    /\ pc = "query" => Len(read_log) = cand /\ read_log[cand].error = None
    /\ (pc = "done" /\ matched_pdfs # <<>> /\ ~Get(result, "success", FALSE)) =>
           Len(read_log) = Len(matched_pdfs)
    /\ (llm_log # <<>> /\ Last(llm_log).hit) =>
           /\ pc = "done"
           /\ Get(result, "success", FALSE)
           /\ result.pdf_path = Last(llm_log).pdf

\* C2's case: a success after a file that could not be read and a file whose
\* LLM call raised
SkipAndContinueWitness ==
    /\ pc = "done"
    /\ Get(result, "success", FALSE)
    /\ \E i \in DOMAIN read_log : read_log[i].error # None
    /\ \E i \in DOMAIN llm_log : llm_log[i].error # None

\* the corpus directory is missing or holds no entry ending in .pdf
NoPdfEntry ==
    ~dir_exists \/ \A k \in DOMAIN listing : ~EndsWith(Lower(listing[k]), ".pdf")

\* C3 as claimed: a search over an empty corpus returns the no-documents
\* failure, and reads and queries nothing
EmptyCorpusAlwaysNoDocuments ==
    (pc = "done" /\ rule_result.requires_gemini /\ NoPdfEntry) =>
        /\ Get(result, "success", TRUE) = FALSE
        /\ Get(result, "error", None) = NoPdfFilesError
        /\ read_log = <<>>
        /\ llm_log = <<>>

\* C3, amended: a search over an empty corpus by a service that has a model
\* returns the no-documents failure; with or without a model it reads and
\* queries nothing
EmptyCorpus ==
    (pc = "done" /\ rule_result.requires_gemini /\ NoPdfEntry) =>
        /\ Get(result, "success", TRUE) = FALSE
        /\ model => Get(result, "error", None) = NoPdfFilesError
        /\ read_log = <<>>
        /\ llm_log = <<>>

\* C3's case: a directory that exists and holds only a file that is no PDF
EmptyCorpusWitness ==
    /\ pc = "done"
    /\ model
    /\ rule_result.requires_gemini
    /\ dir_exists
    /\ listing = <<"notes.txt">>
    /\ result.error = NoPdfFilesError

\* the message a search is answered with when the service has no model
NotConfiguredResponse ==
    "(x) Error performing search operation: Gemini API not initialized. Please set GEMINI_API_KEY environment variable."

\* C4: without an API key the service has no model; and without a model every
\* message routed to a PDF operation is answered with the same message,
\* whatever the directory holds, and nothing is read or queried
MissingCredentialsDegrade ==
    /\ ~api_key => ~model
    /\ ~model => (read_log = <<>> /\ llm_log = <<>>)
    /\ (pc = "done" /\ ~model /\ rule_result.requires_gemini) =>
           response = NotConfiguredResponse

\* C4's case: no API key, a search question, PDFs in the directory
MissingCredentialsWitness ==
    /\ pc = "done"
    /\ ~api_key
    /\ rule_result.requires_gemini
    /\ ~NoPdfEntry
    /\ response = NotConfiguredResponse

\* C5: a message labelled greeting, goodbye or help needs no LLM, has no
\* operation, leads to no read and no query, and is answered with one of the
\* templates of its intent
CannedIntents ==
    (pc = "done" /\ intent \in {"greeting", "goodbye", "help"}) =>
        /\ intent = classify(user_message)
        /\ rule_result.requires_gemini = FALSE
        /\ rule_result.operation = None
        /\ read_log = <<>> /\ llm_log = <<>>
        /\ "success" \notin DOMAIN result
        /\ intent = "greeting" => response \in SetOf(GreetingTemplates)
        /\ intent = "goodbye"  => response \in SetOf(GoodbyeTemplates)
        /\ intent = "help"     => response = HelpTemplate

\* C5's case: a goodbye answered while the service has a model and PDFs
CannedIntentsWitness ==
    /\ pc = "done"
    /\ intent = "goodbye"
    /\ model
    /\ ~NoPdfEntry
    /\ response = GoodbyeTemplates[2]

\* the error strings recorded for the candidates that failed
RecordedErrors ==
    {read_log[i].error : i \in {j \in DOMAIN read_log : read_log[j].error # None}}
    \cup {llm_log[i].error : i \in {j \in DOMAIN llm_log : llm_log[j].error # None}}

\* C9 as claimed: when the candidates are exhausted without a hit and some
\* candidate failed, the outcome carries the recorded errors, and the answer
\* is not the one of a search that found nothing
FailuresVisible ==
    (/\ pc = "done"
     /\ matched_pdfs # <<>>
     /\ ~Get(result, "success", FALSE)
     /\ RecordedErrors # {}) =>
        /\ \A e \in RecordedErrors : Contains(result.error, e)
        /\ response # "(x) Error performing search operation: " \o NoRelevantError

(***************************************************************************)
(* Properties of the ranking (specification SpecRank)                      *)
(***************************************************************************)
\* the place of a path in a sequence of distinct paths
PlaceIn(seq, x) == CHOOSE k \in DOMAIN seq : seq[k] = x

\* C6: the ranking is a permutation of the paths it was given, in order of
\* non-increasing score, and two paths of equal score keep the relative order
\* they had in the input
RankStablePermutation ==
    pc = "done" =>
        /\ Len(matched_pdfs) = Len(all_pdf_files)
        /\ SetOf(matched_pdfs) = SetOf(all_pdf_files)
        /\ \A i \in DOMAIN matched_pdfs : \A j \in DOMAIN matched_pdfs :
               i < j => TitleScore(matched_pdfs[i], user_message)
                            >= TitleScore(matched_pdfs[j], user_message)
        /\ \A i \in DOMAIN all_pdf_files : \A j \in DOMAIN all_pdf_files :
               (/\ i < j
                /\ TitleScore(all_pdf_files[i], user_message)
                       = TitleScore(all_pdf_files[j], user_message)) =>
                   PlaceIn(matched_pdfs, all_pdf_files[i])
                       < PlaceIn(matched_pdfs, all_pdf_files[j])

\* C6's case: three paths, the first two of equal score, the third of a
\* higher score and so moved in front of them
RankStableWitness ==
    /\ pc = "done"
    /\ Len(all_pdf_files) = 3
    /\ TitleScore(all_pdf_files[1], user_message) = TitleScore(all_pdf_files[2], user_message)
    /\ TitleScore(all_pdf_files[3], user_message) > TitleScore(all_pdf_files[1], user_message)
    /\ matched_pdfs = <<all_pdf_files[3], all_pdf_files[1], all_pdf_files[2]>>

ScenarioQuery  == "find the vitamin content"
NutritionFacts == "uploads/nutrition_facts.pdf"
UnrelatedReport == "uploads/unrelated_report.pdf"

\* the scenario of C10: the query and the two files, in either order
RankScenario ==
    /\ pc = "done"
    /\ user_message = ScenarioQuery
    /\ Len(all_pdf_files) = 2
    /\ SetOf(all_pdf_files) = {NutritionFacts, UnrelatedReport}

\* C10 as claimed: nutrition_facts.pdf scores higher than unrelated_report.pdf
\* and so ranks first, in whichever order the two are enumerated
NutritionRanksFirst ==
    RankScenario =>
        /\ TitleScore(NutritionFacts, user_message) > TitleScore(UnrelatedReport, user_message)
        /\ matched_pdfs[1] = NutritionFacts

\* C10, amended: both files score 0 for the query, so the ranking keeps the
\* order they were enumerated in: nutrition_facts.pdf is first exactly when it
\* is enumerated first
NutritionRanksAsEnumerated ==
    RankScenario =>
        /\ TitleScore(NutritionFacts, user_message) = 0
        /\ TitleScore(UnrelatedReport, user_message) = 0
        /\ matched_pdfs = all_pdf_files

\* C10's case: unrelated_report.pdf enumerated first, and ranked first
NutritionRanksWitness ==
    /\ RankScenario
    /\ all_pdf_files = <<UnrelatedReport, NutritionFacts>>
    /\ matched_pdfs[1] = UnrelatedReport

(***************************************************************************)
(* Properties of the chunking (specification SpecSplit)                    *)
(***************************************************************************)
\* the first and the last position of every run of the text
RunEnds(t) ==
    UNION {{RunStart(t, i), RunStart(t, i) + t[i].n - 1} : i \in DOMAIN t}

\* C7: the chunks are slices of the text; the first starts at position 0,
\* each later one starts after the start of the one before it and no later
\* than where that one ends, and a chunk ends where the text ends, so every
\* position of the text lies in a chunk; a text of at most chunk_size
\* characters gives one chunk, the text itself
ChunkCoverage ==
    pc = "done" =>
        LET n == TextLen(text)
        IN  /\ chunks # <<>>
            /\ \A k \in DOMAIN chunks :
                   0 <= chunks[k].s /\ chunks[k].s <= chunks[k].e /\ chunks[k].e <= n
            /\ chunks[1].s = 0
            /\ \A k \in 1..(Len(chunks) - 1) :
                   chunks[k].s < chunks[k + 1].s /\ chunks[k + 1].s <= chunks[k].e
            /\ \E k \in DOMAIN chunks : chunks[k].e = n
            /\ \A p \in RunEnds(text) :
                   \E k \in DOMAIN chunks : chunks[k].s <= p /\ p < chunks[k].e
            /\ n <= chunk_size => chunks = <<[s |-> 0, e |-> n]>>

\* C7's case: the default sizes, a first chunk cut at a terminator, and at
\* least three chunks
ChunkCoverageWitness ==
    /\ pc = "done"
    /\ chunk_size = 50000 /\ overlap = 5000
    /\ Len(chunks) >= 3
    /\ chunks[1].e < 50000

\* the position of the last '.' or newline among the final SentenceWindow
\* characters of the window of cs characters that starts at s, or -1
LastTerminator(t, s, cs) ==
    LET lo == s + Max(cs - SentenceWindow, 0)
    IN  Max(RFind(t, ".", lo, s + cs), RFind(t, "\n", lo, s + cs))

\* where the chunk of the window starting at s ends when the rule of the
\* sentence-boundary cut is applied to the offset from the window start
CutEnd(t, s, cs) ==
    LET term == LastTerminator(t, s, cs)
    IN  IF term # -1 /\ term - s > cs \div 2 THEN term + 1 ELSE s + cs

\* C11 as claimed: every window that does not reach the end of the text, the
\* first and the later ones, gives a chunk that ends right after the last
\* terminator of its final 2,000 characters when that terminator lies more
\* than half of chunk_size after the window start, and at the hard cut
\* otherwise; the next chunk starts overlap characters before that end
SentenceCutEveryWindow ==
    pc = "done" =>
        \A k \in DOMAIN chunks :
            chunks[k].s + chunk_size < TextLen(text) =>
                LET end == CutEnd(text, chunks[k].s, chunk_size)
                IN  /\ chunks[k].e = end
                    /\ k < Len(chunks)
                    /\ chunks[k + 1].s = end - overlap

\* the parameters C12 is about
OverlapBelowHalf == 0 <= overlap /\ overlap < chunk_size \div 2

\* every chunk so far has at most chunk_size characters
ChunksWithinSize ==
    \A k \in DOMAIN chunks : chunks[k].e - chunks[k].s <= chunk_size

\* every chunk so far has at least one character
ChunksNonEmpty ==
    \A k \in DOMAIN chunks : chunks[k].s < chunks[k].e

\* the loop ends after a bounded number of iterations: the function is at
\* its call, in its loop or has returned, inside the loop start is a position
\* of the text, so that the next iteration can be taken, and there are no
\* more chunks than the text has characters, the single chunk of a text no
\* longer than chunk_size aside
BoundedIterations ==
    /\ pc \in {"split", "split_loop", "done"}
    /\ pc = "split_loop" => (0 <= start /\ start < TextLen(text))
    /\ Len(chunks) <= Max(TextLen(text), 1)

\* C12 as claimed: with 0 <= overlap < chunk_size // 2 every iteration of the
\* loop moves start forward, the loop ends after a bounded number of
\* iterations, and whatever the text every chunk has at least one and at
\* most chunk_size characters
ChunkingTerminatesNonEmpty ==
    /\ [][(OverlapBelowHalf /\ pc = "split_loop") => start' > start]_vars
    /\ [](OverlapBelowHalf =>
             BoundedIterations /\ ChunksWithinSize /\ ChunksNonEmpty)

\* C12, amended: with 0 <= overlap < chunk_size // 2 every iteration of the
\* loop moves start forward, the loop ends after a bounded number of
\* iterations, every chunk has at most chunk_size characters, and every chunk
\* has at least one character unless the text is empty, which is returned as
\* one empty chunk
ChunkingTerminates ==
    /\ [][(OverlapBelowHalf /\ pc = "split_loop") => start' > start]_vars
    /\ [](OverlapBelowHalf =>
             /\ BoundedIterations
             /\ ChunksWithinSize
             /\ ChunksNonEmpty \/ (TextLen(text) = 0 /\ chunks = <<[s |-> 0, e |-> 0]>>))

\* C12's case: a positive overlap, a loop that has run three times or more and
\* has ended, and a chunk that was cut short at a terminator, where start
\* moves forward the least
ChunkingTerminatesWitness ==
    /\ pc = "done"
    /\ OverlapBelowHalf /\ overlap > 0
    /\ Len(chunks) >= 3
    /\ ChunksNonEmpty
    /\ \E k \in DOMAIN chunks :
           /\ chunks[k].e - chunks[k].s < chunk_size
           /\ chunks[k].e < TextLen(text)

\* C13 as claimed: in the list returned, every chunk after the first ends
\* after the chunk before it, and so after every earlier chunk: it holds a
\* position of the text that no earlier chunk holds
NoRedundantChunk ==
    pc = "done" =>
        \A k \in 2..Len(chunks) :
            \A j \in 1..(k - 1) : chunks[j].e < chunks[k].e

(***************************************************************************)
(* Properties of the classifier (specification SpecClassify)               *)
(***************************************************************************)
\* the highest score any intent has for s
TopScore(s) ==
    CHOOSE v \in {IntentScore(i, s) : i \in SetOf(IntentOrder)} :
        \A i \in SetOf(IntentOrder) : IntentScore(i, s) <= v

\* the first intent, in the given order of priority, that has the top score
FirstWithTopScore(priority, s) ==
    priority[CHOOSE k \in DOMAIN priority :
                 /\ IntentScore(priority[k], s) = TopScore(s)
                 /\ \A j \in 1..(k - 1) : IntentScore(priority[j], s) < TopScore(s)]

\* C8 as claimed: the label has the top score, and among the intents that
\* share a top score above 0 the priority is greeting > goodbye > help >
\* pdf_search > unknown
TieBreakGreetingFirst ==
    pc = "done" =>
        LET s == Strip(Lower(user_message))
        IN  /\ IntentScore(intent, s) = TopScore(s)
            /\ TopScore(s) > 0 =>
                   intent = FirstWithTopScore(
                       <<"greeting", "goodbye", "help", "pdf_search", "unknown">>, s)

\* C8, amended: the label has the top score, and among the intents that share
\* a top score above 0 the priority is pdf_search > greeting > goodbye >
\* help > unknown
TieBreakSearchFirst ==
    pc = "done" =>
        LET s == Strip(Lower(user_message))
        IN  /\ IntentScore(intent, s) = TopScore(s)
            /\ TopScore(s) > 0 =>
                   intent = FirstWithTopScore(
                       <<"pdf_search", "greeting", "goodbye", "help", "unknown">>, s)

\* C8's case: a message that scores 2 for greeting and 2 for pdf_search and
\* less for the rest
TieBreakWitness ==
    /\ pc = "done"
    /\ LET s == Strip(Lower(user_message))
       IN  /\ IntentScore("greeting", s) = 2
           /\ IntentScore("pdf_search", s) = 2
           /\ TopScore(s) = 2
    /\ intent = "pdf_search"

=============================================================================
